---- MODULE Spec2Model ----
(***************************************************************************)
(* Clarity prompt optimizer: the client workflow state machine (App), the  *)
(* service layer it calls, and the serverless proxy in front of the        *)
(* upstream text-generation API.                                           *)
(*                                                                         *)
(* The repository holds two builds of the client:                          *)
(*   "direct": src/App.tsx, which keeps the credential in App state, and   *)
(*             the service of src/unnamed/part_002, which calls the        *)
(*             upstream API from the browser;                              *)
(*   "proxy":  src/unnamed/part_000 (App without credential state), the    *)
(*             service of src/services/geminiService.ts (postToBackend,    *)
(*             credential read from local storage) and the request-key     *)
(*             proxy handler of src/unnamed/part_004.                      *)
(* The variable `variant` says which build runs; it never changes.         *)
(*                                                                         *)
(* Strings the code trims or tests for blankness are sequences of          *)
(* one-character strings; messages are opaque TLA+ strings.                *)
(***************************************************************************)
EXTENDS Integers, Sequences, FiniteSets, TLC

\* ------------------------------------------------------------------ bounds
MaxLen == 2          \* longest user input / upstream text / credential draft
MaxQuestions == 2    \* longest question list the upstream returns
MaxKeyLen == 3       \* longest draft typed into the save panel's field

\* ------------------------------------------------------------------ strings
Chars == {" ", "x"}
EmptyStr == << >>
StringsUpTo(n) == UNION {[1..k -> Chars] : k \in 0..n}

RECURSIVE trimStart(_)
trimStart(s) ==
  IF s = EmptyStr THEN s
  ELSE IF Head(s) = " " THEN trimStart(Tail(s)) ELSE s

RECURSIVE trimEnd(_)
trimEnd(s) ==
  IF s = EmptyStr THEN s
  ELSE IF s[Len(s)] = " " THEN trimEnd(SubSeq(s, 1, Len(s) - 1)) ELSE s

\* String.prototype.trim
trim(s) == trimEnd(trimStart(s))

\* ------------------------------------------------------------------ enums
FAST == "FAST"
CLARIFY == "CLARIFY"
AppMode == {FAST, CLARIFY}

IDLE == "IDLE"
GENERATING_QUESTIONS == "GENERATING_QUESTIONS"
AWAITING_INPUT == "AWAITING_INPUT"
GENERATING_RESULT == "GENERATING_RESULT"
COMPLETED == "COMPLETED"
ERROR == "ERROR"
AppStatus ==
  {IDLE, GENERATING_QUESTIONS, AWAITING_INPUT, GENERATING_RESULT, COMPLETED, ERROR}

Variants == {"direct", "proxy"}

NULL == "null"

\* ------------------------------------------------------------------ questions
\* A QuestionOption is represented by its `value` (id and label are display
\* only); a ClarificationQuestion by id, text and the list of option values.
Question(id, options) == [id |-> id, text |-> "t", options |-> options]

\* The question lists the upstream is taken to return: none, one, two or three
\* questions, with fresh or repeated ids, and a question without options.
SampleQuestionLists ==
  { << >>,
    <<Question("q1", <<"a", "b">>)>>,
    <<Question("q2", <<"a", "b">>)>>,
    <<Question("q1", <<"c">>)>>,
    <<Question("q1", << >>)>>,
    <<Question("q1", <<"a", "b">>), Question("q2", <<"c">>)>>,
    <<Question("q1", <<"a", "b">>), Question("q1", <<"a", "b">>)>>,
    <<Question("q1", <<"a", "b">>), Question("q2", <<"a", "b">>),
      Question("q3", <<"c">>)>> }
QuestionLists == {ql \in SampleQuestionLists : Len(ql) <= MaxQuestions}

NoAnswers == << >>
HasAnswer(ans, qid) == qid \in DOMAIN ans

\* ------------------------------------------------------------------ messages
\* Client messages (ASCII renderings of the literals in the source).
MSG_CONFIGURE_KEY == "Please configure the Google API Key first"
MSG_KEY_INVALID == "API Key invalid or expired, check the configuration"
MSG_GENERIC == "Something went wrong, retry later"
MSG_KEY_LOST == "API Key lost, configure it again"
MSG_FINAL_FAILED == "Generating the final instruction failed"
MSG_SERVER_BUSY == "Server busy, retry later"
MSG_OPTIMIZE_FAILED == "Optimization failed: "
MSG_PLEASE_RETRY == "please retry"
MSG_SET_KEY_FIRST == "Set your Gemini API Key (top right) first"
MSG_CLIENT_TIMEOUT == "Request timed out, please retry"
MSG_NETWORK == "Network connection failed, check your network settings"
MSG_FAILED_TO_FETCH == "Failed to fetch"
MSG_INVALID_JSON == "Invalid JSON response"
MSG_EMPTY_DIRECT == "AI returned no text (Empty Response)"
MSG_PARSE_DIRECT == "Parsing the clarification questions failed"
MSG_TYPE_ERROR == "Cannot read properties of undefined"
\* Upstream error texts; the first contains the substring 'API Key'.
MSG_UP_BAD_KEY == "API Key not valid"
MSG_UP_QUOTA == "Quota exceeded"
\* Proxy messages.
MSG_EMPTY_BODY == "Empty request body"
MSG_BAD_BODY == "Unexpected token in JSON"
MSG_KEY_MISSING == "API Key is missing. Please set it in the app settings."
MSG_INVALID_INPUT == "Invalid input."
MSG_INVALID_ACTION == "Invalid action."
MSG_PROXY_TIMEOUT == "AI Processing Timeout"
MSG_AI_SERVICE == "AI Service Error: 500"
MSG_AI_EMPTY == "AI returned empty response."
MSG_AI_PARSE == "Failed to parse AI response."
MSG_FETCH_FAILED == "fetch failed"

\* err.message.includes('API Key')
IncludesApiKey(m) ==
  m \in {MSG_KEY_INVALID, MSG_KEY_LOST, MSG_SET_KEY_FIRST, MSG_UP_BAD_KEY,
         MSG_KEY_MISSING}

\* ------------------------------------------------------------------ JSON values
\* The JSON documents that travel between client, proxy and upstream:
\* {message}, {result}, {questions}, {} , null, or a text that is no JSON.
Json(k, m, r, qs) == [k |-> k, message |-> m, result |-> r, questions |-> qs]
JsonMessage(m) == Json("message", m, EmptyStr, << >>)
JsonResult(r) == Json("result", "", r, << >>)
JsonQuestions(qs) == Json("questions", "", EmptyStr, qs)
JsonEmptyObject == Json("object", "", EmptyStr, << >>)
JsonNull == Json("null", "", EmptyStr, << >>)
NotJson == Json("text", "", EmptyStr, << >>)

\* The text of the first upstream candidate: its characters, and the document
\* it parses to (NotJson when JSON.parse would throw).  The characters of a
\* JSON document are not modelled: they stand as one non-blank character.
PlainText(s) == [raw |-> s, doc |-> NotJson]
JsonText(d) == [raw |-> <<"x">>, doc |-> d]
NoText == PlainText(EmptyStr)

KnownActions == {"fast", "clarify_questions", "clarify_final"}

QuestionDocs ==
  {JsonNull, JsonEmptyObject} \cup {JsonQuestions(qs) : qs \in QuestionLists}

UpstreamTexts(action) ==
  {PlainText(s) : s \in StringsUpTo(MaxLen)}
    \cup (IF action = "clarify_questions"
          THEN {JsonText(d) : d \in QuestionDocs} ELSE {})

\* What the upstream API does with one request: answers 2xx with a candidate
\* text (possibly empty), answers non-2xx with an error message, the fetch
\* rejects (network), or it never answers.
Up(kind, text, message) == [kind |-> kind, text |-> text, message |-> message]
NoUp == Up("none", NoText, "")
UpstreamOutcomes(action) ==
  {Up("hang", NoText, ""), Up("netfail", NoText, MSG_FETCH_FAILED)}
    \cup {Up("error", NoText, m) : m \in {MSG_UP_BAD_KEY, MSG_UP_QUOTA}}
    \cup {Up("ok", t, "") : t \in UpstreamTexts(action)}

\* ------------------------------------------------------------------ proxy
\* event.body: absent, unparseable, or an object {action, input, qaPairs, apiKey}
\* (inputIsString: typeof input === 'string').
RequestBody(action, inp, isString, qaPairs, key) ==
  [kind |-> "object", action |-> action, input |-> inp, inputIsString |-> isString,
   qaPairs |-> qaPairs, apiKey |-> key]
Event(method, body) == [httpMethod |-> method, body |-> body]

Response(code, body) == [statusCode |-> code, body |-> body]
Thrown(name, message) == [name |-> name, message |-> message]

\* catch (error) of the handler: 504 for an AbortError, 502 otherwise.
handlerCatch(error) ==
  LET isTimeout == error.name = "AbortError" IN
  Response(IF isTimeout THEN 504 ELSE 502,
           JsonMessage(IF isTimeout THEN MSG_PROXY_TIMEOUT
                       ELSE IF error.message # "" THEN error.message
                       ELSE "Internal Server Error"))

\* The upstream call of the handler and the processing of its answer.
handlerUpstream(action, up) ==
  IF up.kind = "hang" THEN handlerCatch(Thrown("AbortError", "This operation was aborted"))
  ELSE IF up.kind = "netfail" THEN handlerCatch(Thrown("TypeError", up.message))
  ELSE IF up.kind = "error" THEN handlerCatch(Thrown("Error", MSG_AI_SERVICE))
  ELSE IF up.text = NoText THEN handlerCatch(Thrown("Error", MSG_AI_EMPTY))
  ELSE IF action = "clarify_questions"
       THEN IF up.text.doc = NotJson
            THEN handlerCatch(Thrown("Error", MSG_AI_PARSE))
            ELSE Response(200, up.text.doc)
       ELSE Response(200, JsonResult(trim(up.text.raw)))

\* Faulty variant of handler: no rejection of an unknown action.
handler_anyAction(event, up) ==
  IF event.httpMethod # "POST" THEN Response(405, NotJson)
  ELSE IF event.body.kind = "none"
       THEN handlerCatch(Thrown("Error", MSG_EMPTY_BODY))
  ELSE IF event.body.kind = "malformed"
       THEN handlerCatch(Thrown("SyntaxError", MSG_BAD_BODY))
  ELSE IF event.body.apiKey = EmptyStr
       THEN Response(401, JsonMessage(MSG_KEY_MISSING))
  ELSE IF event.body.input = EmptyStr \/ ~event.body.inputIsString
       THEN Response(400, JsonMessage(MSG_INVALID_INPUT))
  ELSE handlerUpstream(event.body.action, up)

\* Faulty variant of handler: no test of the HTTP method.
handler_anyMethod(event, up) ==
  IF event.body.kind = "none"
       THEN handlerCatch(Thrown("Error", MSG_EMPTY_BODY))
  ELSE IF event.body.kind = "malformed"
       THEN handlerCatch(Thrown("SyntaxError", MSG_BAD_BODY))
  ELSE IF event.body.apiKey = EmptyStr
       THEN Response(401, JsonMessage(MSG_KEY_MISSING))
  ELSE IF event.body.input = EmptyStr \/ ~event.body.inputIsString
       THEN Response(400, JsonMessage(MSG_INVALID_INPUT))
  ELSE IF event.body.action \notin KnownActions
       THEN Response(400, JsonMessage(MSG_INVALID_ACTION))
  ELSE handlerUpstream(event.body.action, up)

\* exports.handler of the request-key proxy.
handler(event, up) ==
  IF event.httpMethod # "POST" THEN Response(405, NotJson)
  ELSE IF event.body.kind = "none"
       THEN handlerCatch(Thrown("Error", MSG_EMPTY_BODY))
  ELSE IF event.body.kind = "malformed"
       THEN handlerCatch(Thrown("SyntaxError", MSG_BAD_BODY))
  ELSE IF event.body.apiKey = EmptyStr
       THEN Response(401, JsonMessage(MSG_KEY_MISSING))
  ELSE IF event.body.input = EmptyStr \/ ~event.body.inputIsString
       THEN Response(400, JsonMessage(MSG_INVALID_INPUT))
  ELSE IF event.body.action \notin KnownActions
       THEN Response(400, JsonMessage(MSG_INVALID_ACTION))
  ELSE handlerUpstream(event.body.action, up)

\* Whether the handler gets as far as its fetch of the upstream API.
handlerFetches(event) ==
  /\ event.httpMethod = "POST"
  /\ event.body.kind = "object"
  /\ event.body.apiKey # EmptyStr
  /\ event.body.input # EmptyStr /\ event.body.inputIsString
  /\ event.body.action \in KnownActions

\* The requests any HTTP client can send to the function's endpoint.
Methods == {"POST", "GET", "OPTIONS"}
NoBody == [kind |-> "none"]
MalformedBody == [kind |-> "malformed"]
Bodies ==
  {NoBody, MalformedBody}
    \cup {RequestBody(a, inp, isString, << >>, key) :
            a \in KnownActions \cup {"other"}, inp \in {EmptyStr, <<"x">>},
            isString \in BOOLEAN, key \in {EmptyStr, <<"x">>}}
Events == {Event(m, b) : m \in Methods, b \in Bodies}

\* The action the upstream would be asked for.
EventAction(event) ==
  IF event.body.kind = "object" /\ event.body.action \in KnownActions
  THEN event.body.action ELSE "fast"

\* ------------------------------------------------------------------ the other proxy functions
\* The repository holds five more versions of the function.  Three read the
\* credential from the request body (handler above, handlerDeepSeek,
\* handlerSDK) and three from the server environment (handlerEnv,
\* handlerEnvFetch, handlerCallGemini).

\* The handler has not returned: its await of the upstream never settles and
\* nothing in the code ends the wait.
NoResponse == Response(0, NotJson)

\* exports.handler reading process.env.API_KEY, with the 15 s AbortController.
handlerEnv(event, env, up) ==
  IF event.httpMethod # "POST" THEN Response(405, NotJson)
  ELSE IF env = EmptyStr
       THEN Response(500, JsonMessage("Server configuration error (Missing API Key)."))
  ELSE IF event.body.kind = "none"
       THEN handlerCatch(Thrown("Error", MSG_EMPTY_BODY))
  ELSE IF event.body.kind = "malformed"
       THEN handlerCatch(Thrown("SyntaxError", MSG_BAD_BODY))
  ELSE IF event.body.input = EmptyStr \/ ~event.body.inputIsString
       THEN Response(400, JsonMessage(MSG_INVALID_INPUT))
  ELSE IF event.body.action \notin KnownActions
       THEN Response(400, JsonMessage(MSG_INVALID_ACTION))
  ELSE handlerUpstream(event.body.action, up)

\* catch (error) of the DeepSeek handler: 504 for an AbortError or a message
\* holding "Timed Out", 500 otherwise.  No message of the model holds
\* "Timed Out".
handlerDeepSeekCatch(error) ==
  LET isTimeout == error.name = "AbortError" IN
  Response(IF isTimeout THEN 504 ELSE 500,
           JsonMessage(IF isTimeout THEN "Request timed out (DeepSeek is busy)"
                       ELSE IF error.message # "" THEN error.message
                       ELSE "Internal Server Error"))

\* The upstream call of the DeepSeek handler (9 s AbortController) and the
\* processing of its answer; in JSON mode the parsed object must hold a
\* questions array.
handlerDeepSeekUpstream(action, up) ==
  IF up.kind = "hang"
       THEN handlerDeepSeekCatch(Thrown("AbortError", "This operation was aborted"))
  ELSE IF up.kind = "netfail" THEN handlerDeepSeekCatch(Thrown("TypeError", up.message))
  ELSE IF up.kind = "error" THEN handlerDeepSeekCatch(Thrown("Error", "DeepSeek API Error: 500"))
  ELSE IF up.text = NoText
       THEN handlerDeepSeekCatch(Thrown("Error", "DeepSeek returned empty content."))
  ELSE IF action = "clarify_questions"
       THEN IF up.text.doc = NotJson \/ up.text.doc.k # "questions"
            THEN handlerDeepSeekCatch(Thrown("Error", "Failed to parse AI response as JSON."))
            ELSE Response(200, up.text.doc)
       ELSE Response(200, JsonResult(trim(up.text.raw)))

\* export const handler of the DeepSeek function.
handlerDeepSeek(event, up) ==
  IF event.httpMethod # "POST" THEN Response(405, NotJson)
  ELSE IF event.body.kind = "none"
       THEN handlerDeepSeekCatch(Thrown("Error", MSG_EMPTY_BODY))
  ELSE IF event.body.kind = "malformed"
       THEN handlerDeepSeekCatch(Thrown("SyntaxError", MSG_BAD_BODY))
  ELSE IF event.body.apiKey = EmptyStr
       THEN Response(401, JsonMessage(MSG_KEY_MISSING))
  ELSE IF event.body.input = EmptyStr \/ ~event.body.inputIsString
       THEN Response(400, JsonMessage(MSG_INVALID_INPUT))
  ELSE IF event.body.action \notin KnownActions
       THEN Response(400, JsonMessage(MSG_INVALID_ACTION))
  ELSE handlerDeepSeekUpstream(event.body.action, up)

\* catch (error) of the env-key handler that fetches without a timer: 502.
handlerEnvFetchCatch(error) ==
  Response(502, JsonMessage(IF error.message # "" THEN error.message
                            ELSE "Internal Server Error"))

\* exports.handler reading process.env.API_KEY whose fetch has no signal: an
\* upstream that never answers leaves the handler waiting.  JSON.parse of an
\* absent body throws or yields null, whose destructuring throws.
handlerEnvFetch(event, env, up) ==
  IF event.httpMethod # "POST" THEN Response(405, NotJson)
  ELSE IF env = EmptyStr
       THEN Response(500, JsonMessage("Server configuration error (Missing API Key)."))
  ELSE IF event.body.kind = "none"
       THEN handlerEnvFetchCatch(Thrown("TypeError", MSG_TYPE_ERROR))
  ELSE IF event.body.kind = "malformed"
       THEN handlerEnvFetchCatch(Thrown("SyntaxError", MSG_BAD_BODY))
  ELSE IF event.body.input = EmptyStr \/ ~event.body.inputIsString
       THEN Response(400, JsonMessage(MSG_INVALID_INPUT))
  ELSE IF event.body.action \notin KnownActions
       THEN Response(400, JsonMessage(MSG_INVALID_ACTION))
  ELSE IF up.kind = "hang" THEN NoResponse
  ELSE IF up.kind = "netfail" THEN handlerEnvFetchCatch(Thrown("TypeError", up.message))
  ELSE IF up.kind = "error"
       THEN handlerEnvFetchCatch(Thrown("Error", "AI Service Unavailable: 500"))
  ELSE IF up.text = NoText THEN handlerEnvFetchCatch(Thrown("Error", "Empty response from AI."))
  ELSE IF event.body.action = "clarify_questions"
       THEN IF up.text.doc = NotJson
            THEN handlerEnvFetchCatch(Thrown("Error", MSG_AI_PARSE))
            ELSE Response(200, up.text.doc)
       ELSE Response(200, JsonResult(trim(up.text.raw)))

\* callGemini: the text of the first candidate, a throw, or no settlement at
\* all (fetch without a signal).  A non-2xx answer throws the upstream's own
\* error message when its body carries one, "Google API Error: ..." otherwise.
callGemini(up) ==
  IF up.kind = "hang" THEN [kind |-> "pending", text |-> NoText, message |-> ""]
  ELSE IF up.kind = "netfail" THEN [kind |-> "throw", text |-> NoText, message |-> up.message]
  ELSE IF up.kind = "error"
       THEN [kind |-> "throw", text |-> NoText,
             message |-> IF up.message # "" THEN up.message
                         ELSE "Google API Error: 500"]
  ELSE IF up.text = NoText
       THEN [kind |-> "throw", text |-> NoText, message |-> "AI returned empty response"]
  ELSE [kind |-> "text", text |-> up.text, message |-> ""]

\* catch (error) of the handler built on callGemini: 502 when the message
\* holds "Google API Error", 400 otherwise.
handlerCallGeminiCatch(error) ==
  Response(IF error.message = "Google API Error: 500" THEN 502 ELSE 400,
           JsonMessage(IF error.message # "" THEN error.message
                       ELSE "Internal Server Error"))

\* exports.handler built on callGemini: input is only tested for truthiness,
\* the result text is returned as it came, and a parsed JSON value that is
\* falsy (null) is replaced by {result: text}.
handlerCallGemini(event, env, up) ==
  IF event.httpMethod # "POST" THEN Response(405, NotJson)
  ELSE IF env = EmptyStr
       THEN Response(500, JsonMessage("Server Configuration Error: API Key not found."))
  ELSE IF event.body.kind = "none"
       THEN handlerCallGeminiCatch(Thrown("Error", "Missing request body"))
  ELSE IF event.body.kind = "malformed"
       THEN handlerCallGeminiCatch(Thrown("SyntaxError", MSG_BAD_BODY))
  ELSE IF event.body.input = EmptyStr
       THEN handlerCallGeminiCatch(Thrown("Error", "Missing 'input' field"))
  ELSE IF event.body.action \notin KnownActions
       THEN Response(400, JsonMessage("Unknown action type"))
  ELSE LET r == callGemini(up) IN
       IF r.kind = "pending" THEN NoResponse
       ELSE IF r.kind = "throw" THEN handlerCallGeminiCatch(Thrown("Error", r.message))
       ELSE IF event.body.action = "clarify_questions"
            THEN IF r.text.doc = NotJson
                 THEN handlerCallGeminiCatch(Thrown("Error", "AI failed to return valid JSON"))
                 ELSE IF r.text.doc = JsonNull
                      THEN Response(200, JsonResult(r.text.raw))
                      ELSE Response(200, r.text.doc)
            ELSE Response(200, JsonResult(r.text.raw))

\* catch (error) of the SDK handler: 500.
handlerSDKCatch(error) ==
  Response(500, JsonMessage(IF error.message # "" THEN error.message
                            ELSE "Internal Server Error"))

\* export const handler built on the GoogleGenAI SDK: generateContent is
\* awaited without a timeout or an abort signal.
handlerSDK(event, up) ==
  IF event.httpMethod # "POST" THEN Response(405, NotJson)
  ELSE IF event.body.kind = "none"
       THEN handlerSDKCatch(Thrown("Error", MSG_EMPTY_BODY))
  ELSE IF event.body.kind = "malformed"
       THEN handlerSDKCatch(Thrown("SyntaxError", MSG_BAD_BODY))
  ELSE IF event.body.apiKey = EmptyStr
       THEN Response(401, JsonMessage(MSG_KEY_MISSING))
  ELSE IF event.body.input = EmptyStr \/ ~event.body.inputIsString
       THEN Response(400, JsonMessage(MSG_INVALID_INPUT))
  ELSE IF event.body.action \notin KnownActions
       THEN Response(400, JsonMessage(MSG_INVALID_ACTION))
  ELSE IF up.kind = "hang" THEN NoResponse
  ELSE IF up.kind = "netfail" THEN handlerSDKCatch(Thrown("TypeError", up.message))
  ELSE IF up.kind = "error"
       THEN handlerSDKCatch(Thrown("ApiError",
                                   IF up.message # "" THEN up.message
                                   ELSE "got status: 500"))
  ELSE IF up.text = NoText THEN handlerSDKCatch(Thrown("Error", MSG_AI_EMPTY))
  ELSE IF event.body.action = "clarify_questions"
       THEN IF up.text.doc = NotJson
            THEN handlerSDKCatch(Thrown("Error", MSG_AI_PARSE))
            ELSE Response(200, up.text.doc)
       ELSE Response(200, JsonResult(trim(up.text.raw)))

\* The six functions, by the name used for them here.
RequestKeyBuilds == {"request", "deepseek", "sdk"}
EnvKeyBuilds == {"env", "envFetch", "callGemini"}
ProxyBuilds == RequestKeyBuilds \cup EnvKeyBuilds

handlerOf(build, event, env, up) ==
  CASE build = "request" -> handler(event, up)
    [] build = "deepseek" -> handlerDeepSeek(event, up)
    [] build = "sdk" -> handlerSDK(event, up)
    [] build = "env" -> handlerEnv(event, env, up)
    [] build = "envFetch" -> handlerEnvFetch(event, env, up)
    [] build = "callGemini" -> handlerCallGemini(event, env, up)

\* Whether a function gets as far as its call of the upstream API.
handlerFetchesOf(build, event, env) ==
  IF build \in RequestKeyBuilds THEN handlerFetches(event)
  ELSE /\ event.httpMethod = "POST"
       /\ env # EmptyStr
       /\ event.body.kind = "object"
       /\ event.body.input # EmptyStr
       /\ build = "callGemini" \/ event.body.inputIsString
       /\ event.body.action \in KnownActions

\* What the upstream can do with a request of a proxy function: as for any
\* caller, and a non-2xx answer whose body carries no error message.
ProxyUpstreamOutcomes(action) ==
  UpstreamOutcomes(action) \cup {Up("error", NoText, "")}

\* One invocation of a function: which function, the server's API_KEY, the
\* event, what the upstream does if it is asked, the response, and whether
\* the upstream was asked.
Invocation(build, env, event, up) ==
  [build |-> build, env |-> env, event |-> event, up |-> up,
   response |-> handlerOf(build, event, env, up),
   fetched |-> handlerFetchesOf(build, event, env)]
NoInvocation ==
  [build |-> "none", env |-> EmptyStr, event |-> Event("none", NoBody), up |-> NoUp,
   response |-> NoResponse, fetched |-> FALSE]

\* ------------------------------------------------------------------ services
\* What awaiting a service function gives the caller: a value or a throw.
Returned(text, qs) == [ok |-> TRUE, text |-> text, questions |-> qs, message |-> ""]
Throws(m) == [ok |-> FALSE, text |-> EmptyStr, questions |-> << >>, message |-> m]

\* The answer to a pending call as the client receives it.
\*   kind "http":     an HTTP response of the proxy (statusCode, body)
\*   kind "abort":    the client's 20 s abort timer fired
\*   kind "netfail":  fetch rejected with TypeError 'Failed to fetch'
\*   kind "upstream": the upstream's answer to a direct call (up)
Resp(kind, code, body, up) == [kind |-> kind, statusCode |-> code, body |-> body, up |-> up]
NoResp == Resp("none", 0, NotJson, NoUp)

\* ---- proxy build: src/services/geminiService.ts
\* Faulty variant of postToBackend: the abort of the timer is reported as a
\* network failure.
postToBackend_timeoutAsNetwork(resp) ==
  IF resp.kind = "abort" THEN Throws(MSG_NETWORK)
  ELSE IF resp.kind = "netfail" THEN Throws(MSG_NETWORK)
  ELSE LET data == IF resp.body = NotJson THEN JsonMessage(MSG_INVALID_JSON)
                   ELSE resp.body
           ok == resp.statusCode \in 200..299
       IN IF ~ok
          THEN Throws(IF data.k = "message" /\ data.message # "" THEN data.message
                      ELSE "Server Error")
          ELSE [ok |-> TRUE, data |-> data]

\* postToBackend after the fetch settles.
postToBackend(resp) ==
  IF resp.kind = "abort" THEN Throws(MSG_CLIENT_TIMEOUT)
  ELSE IF resp.kind = "netfail" THEN Throws(MSG_NETWORK)
  ELSE LET data == IF resp.body = NotJson THEN JsonMessage(MSG_INVALID_JSON)
                   ELSE resp.body
           ok == resp.statusCode \in 200..299
       IN IF ~ok
          THEN Throws(IF data.k = "message" /\ data.message # "" THEN data.message
                      ELSE "Server Error")
          ELSE [ok |-> TRUE, data |-> data]

generateFastPrompt(resp) ==
  LET r == postToBackend(resp) IN
  IF ~r.ok THEN r
  ELSE IF r.data.k = "null" THEN Throws(MSG_TYPE_ERROR)
  ELSE Returned(IF r.data.k = "result" THEN r.data.result ELSE EmptyStr, << >>)

generateClarificationQuestions(resp) ==
  LET r == postToBackend(resp) IN
  IF ~r.ok THEN r
  ELSE IF r.data.k = "null" THEN Throws(MSG_TYPE_ERROR)
  ELSE Returned(EmptyStr, IF r.data.k = "questions" THEN r.data.questions ELSE << >>)

generateFinalClarifiedPrompt(resp) ==
  LET r == postToBackend(resp) IN
  IF ~r.ok THEN r
  ELSE IF r.data.k = "null" THEN Throws(MSG_TYPE_ERROR)
  ELSE Returned(IF r.data.k = "result" THEN r.data.result ELSE EmptyStr, << >>)

\* ---- direct build: src/unnamed/part_002
callGeminiAPI(up) ==
  IF up.kind = "netfail" THEN Throws(MSG_FAILED_TO_FETCH)
  ELSE IF up.kind = "error" THEN Throws(up.message)
  ELSE IF up.text = NoText THEN Throws(MSG_EMPTY_DIRECT)
  ELSE [ok |-> TRUE, text |-> up.text]

generateFastPromptDirect(resp) ==
  LET r == callGeminiAPI(resp.up) IN
  IF ~r.ok THEN r ELSE Returned(r.text.raw, << >>)

generateClarificationQuestionsDirect(resp) ==
  LET r == callGeminiAPI(resp.up) IN
  IF ~r.ok THEN r
  ELSE IF r.text.doc \in {NotJson, JsonNull} THEN Throws(MSG_PARSE_DIRECT)
  ELSE Returned(EmptyStr,
                IF r.text.doc.k = "questions" THEN r.text.doc.questions ELSE << >>)

generateFinalClarifiedPromptDirect(resp) ==
  LET r == callGeminiAPI(resp.up) IN
  IF ~r.ok THEN r ELSE Returned(r.text.raw, << >>)

\* ------------------------------------------------------------------ state
VARIABLES
  variant,     \* which build runs: "direct" or "proxy"
  mode,        \* AppMode
  input,       \* the textarea's text
  status,      \* AppStatus
  error,       \* NULL or the displayed message
  questions,   \* the question list of the clarify step
  answers,     \* Record<question id, option value>
  result,      \* the final prompt text
  apiKey,      \* the credential in App state (direct build)
  storedKey,   \* the credential in local storage
  inflight,    \* the network calls issued and not yet consumed by the client
  lastOp,      \* the operation that produced this state (history)
  proxy,       \* the last invocation of the proxy function by any HTTP client
  panel        \* the save panel's component state: apiKey (draft), saved, showInput

vars ==
  <<variant, mode, input, status, error, questions, answers, result, apiKey,
    storedKey, inflight, lastOp, proxy, panel>>

\* Credential drafts the user types, and the values a trimmed non-blank draft gives.
KeyDrafts == {EmptyStr, <<" ">>, <<"x">>, <<" ", "x">>}
StoredKeys == {trim(d) : d \in KeyDrafts}

Init ==
  /\ variant \in Variants
  /\ mode = FAST
  /\ input = EmptyStr
  /\ status = IDLE
  /\ error = NULL
  /\ questions = << >>
  /\ answers = NoAnswers
  /\ result = EmptyStr
  /\ storedKey \in StoredKeys
  /\ apiKey = IF variant = "direct" THEN storedKey ELSE EmptyStr
  /\ inflight = << >>
  /\ lastOp = "Init"
  /\ proxy = NoInvocation
  /\ panel = [mounted |-> FALSE, apiKey |-> EmptyStr, saved |-> FALSE,
              showInput |-> FALSE]

isBusy == status \in {GENERATING_QUESTIONS, GENERATING_RESULT}

\* A call as issued: the payload, the credential read when it was issued, and
\* the answer (NoResp until the network delivers one).
Call(action, inp, qaPairs, key) ==
  [action |-> action, input |-> inp, qaPairs |-> qaPairs, apiKey |-> key,
   resp |-> NoResp]

\* ------------------------------------------------------------------ credential
\* direct build: the key field's onChange writes storage and App state.
handleKeyChange(value) ==
  /\ storedKey' = trim(value)
  /\ apiKey' = trim(value)
  /\ UNCHANGED <<variant, mode, input, status, error, questions, answers, result,
                 inflight>>

\* proxy build: the save button of the credential panel (draft = the field).
\* Faulty variant of handleSave: the blank test is missing, so a blank draft
\* overwrites the stored credential with the empty string.
handleSave_storesBlank(draft) ==
  /\ storedKey' = trim(draft)
  /\ UNCHANGED <<variant, mode, input, status, error, questions, answers,
                 result, apiKey, inflight>>

handleSave(draft) ==
  IF trim(draft) = EmptyStr
  THEN UNCHANGED <<variant, mode, input, status, error, questions, answers, result,
                   apiKey, storedKey, inflight>>
  ELSE /\ storedKey' = trim(draft)
       /\ UNCHANGED <<variant, mode, input, status, error, questions, answers,
                      result, apiKey, inflight>>

handleClear ==
  /\ storedKey' = EmptyStr
  /\ UNCHANGED <<variant, mode, input, status, error, questions, answers, result,
                 apiKey, inflight>>

\* ------------------------------------------------------------------ input, mode, reset
\* Faulty variant of InputEnabled: the textarea stays editable while the
\* questions are shown.
InputEnabled_whileAwaiting == ~isBusy

\* Faulty variant of InputEnabled: the textarea stays editable while a call is
\* pending.
InputEnabled_whileBusy == status # AWAITING_INPUT

\* textarea: disabled={isBusy || status === AWAITING_INPUT}
InputEnabled == ~isBusy /\ status # AWAITING_INPUT

setInput(value) ==
  /\ input' = value
  /\ UNCHANGED <<variant, mode, status, error, questions, answers, result, apiKey,
                 storedKey, inflight>>

\* Faulty variant of handleModeChange: no test of the status.
handleModeChange_anytime(newMode) ==
  /\ mode' = newMode
  /\ questions' = << >>
  /\ answers' = NoAnswers
  /\ error' = NULL
  /\ status' = IF status = COMPLETED THEN IDLE ELSE status
  /\ result' = IF status = COMPLETED THEN EmptyStr ELSE result
  /\ UNCHANGED <<variant, input, apiKey, storedKey, inflight>>

\* Faulty variant of handleModeChange: the answers survive the mode change.
handleModeChange_keepsAnswers(newMode) ==
  IF status # IDLE /\ status # COMPLETED
  THEN UNCHANGED <<variant, mode, input, status, error, questions, answers, result,
                   apiKey, storedKey, inflight>>
  ELSE /\ mode' = newMode
       /\ questions' = << >>
       /\ error' = NULL
       /\ status' = IDLE
       /\ result' = IF status = COMPLETED THEN EmptyStr ELSE result
       /\ UNCHANGED <<variant, input, answers, apiKey, storedKey, inflight>>

handleModeChange(newMode) ==
  IF status # IDLE /\ status # COMPLETED
  THEN UNCHANGED <<variant, mode, input, status, error, questions, answers, result,
                   apiKey, storedKey, inflight>>
  ELSE /\ mode' = newMode
       /\ questions' = << >>
       /\ answers' = NoAnswers
       /\ error' = NULL
       /\ status' = IDLE
       /\ result' = IF status = COMPLETED THEN EmptyStr ELSE result
       /\ UNCHANGED <<variant, input, apiKey, storedKey, inflight>>

\* Faulty variant of ResetButtonRendered: the reset button shown in every state.
ResetButtonRendered_anywhere == status \in AppStatus

\* The reset button lives in the result section.
ResetButtonRendered == status = COMPLETED /\ result # EmptyStr

\* Faulty variant of handleReset: the error message survives the reset.
handleReset_keepsError ==
  /\ status' = IDLE
  /\ result' = EmptyStr
  /\ questions' = << >>
  /\ answers' = NoAnswers
  /\ input' = EmptyStr
  /\ UNCHANGED <<variant, mode, error, apiKey, storedKey, inflight>>

handleReset ==
  /\ status' = IDLE
  /\ result' = EmptyStr
  /\ questions' = << >>
  /\ answers' = NoAnswers
  /\ error' = NULL
  /\ input' = EmptyStr
  /\ UNCHANGED <<variant, mode, apiKey, storedKey, inflight>>

\* ------------------------------------------------------------------ generate
\* Faulty variant of GenerateButtonEnabled: the button stays rendered and
\* enabled while a call is pending.
GenerateButtonEnabled_whileBusy ==
  ~(trim(input) = EmptyStr \/ apiKey = EmptyStr)

\* The Generate button: rendered in IDLE, COMPLETED and ERROR; disabled on a
\* blank input, on a missing credential (direct build) and while loading.
GenerateButtonEnabled ==
  /\ status \in {IDLE, COMPLETED, ERROR}
  /\ ~(trim(input) = EmptyStr \/ apiKey = EmptyStr)
  /\ ~isBusy

GenerateButtonEnabledProxy ==
  /\ status \in {IDLE, COMPLETED, ERROR}
  /\ ~(trim(input) = EmptyStr)
  /\ ~isBusy

\* Faulty variant of handleGenerate: Clarify mode asks for the final prompt at
\* once, without the question step.
handleGenerate_skipsQuestions ==
  IF trim(input) = EmptyStr
  THEN UNCHANGED <<variant, mode, input, status, error, questions, answers, result,
                   apiKey, storedKey, inflight>>
  ELSE IF apiKey = EmptyStr
  THEN /\ error' = MSG_CONFIGURE_KEY
       /\ UNCHANGED <<variant, mode, input, status, questions, answers, result,
                      apiKey, storedKey, inflight>>
  ELSE /\ error' = NULL
       /\ result' = EmptyStr
       /\ status' = GENERATING_RESULT
       /\ inflight' =
            Append(inflight,
                   Call(IF mode = FAST THEN "fast" ELSE "clarify_final",
                        input, << >>, apiKey))
       /\ UNCHANGED <<variant, mode, input, questions, answers, apiKey, storedKey>>

\* Faulty variant of handleGenerate: no test of the input for blankness.
handleGenerate_ignoresBlank ==
  IF apiKey = EmptyStr
  THEN /\ error' = MSG_CONFIGURE_KEY
       /\ UNCHANGED <<variant, mode, input, status, questions, answers, result,
                      apiKey, storedKey, inflight>>
  ELSE /\ error' = NULL
       /\ result' = EmptyStr
       /\ status' = IF mode = FAST THEN GENERATING_RESULT ELSE GENERATING_QUESTIONS
       /\ inflight' =
            Append(inflight,
                   Call(IF mode = FAST THEN "fast" ELSE "clarify_questions",
                        input, << >>, apiKey))
       /\ UNCHANGED <<variant, mode, input, questions, answers, apiKey, storedKey>>

\* handleGenerate up to its await (direct build).
handleGenerate ==
  IF trim(input) = EmptyStr
  THEN UNCHANGED <<variant, mode, input, status, error, questions, answers, result,
                   apiKey, storedKey, inflight>>
  ELSE IF apiKey = EmptyStr
  THEN /\ error' = MSG_CONFIGURE_KEY
       /\ UNCHANGED <<variant, mode, input, status, questions, answers, result,
                      apiKey, storedKey, inflight>>
  ELSE /\ error' = NULL
       /\ result' = EmptyStr
       /\ status' = IF mode = FAST THEN GENERATING_RESULT ELSE GENERATING_QUESTIONS
       /\ inflight' =
            Append(inflight,
                   Call(IF mode = FAST THEN "fast" ELSE "clarify_questions",
                        input, << >>, apiKey))
       /\ UNCHANGED <<variant, mode, input, questions, answers, apiKey, storedKey>>

\* Faulty variant of handleGenerateSettled: a successful fast call completes
\* the run without storing the returned text.
handleGenerateSettled_keepsResult(action, o) ==
  IF o.ok
  THEN IF action = "fast"
       THEN /\ status' = COMPLETED
            /\ UNCHANGED <<variant, mode, input, error, questions, answers, result,
                           apiKey, storedKey>>
       ELSE /\ questions' = o.questions
            /\ status' = AWAITING_INPUT
            /\ UNCHANGED <<variant, mode, input, error, answers, result, apiKey,
                           storedKey>>
  ELSE /\ error' = IF IncludesApiKey(o.message) THEN MSG_KEY_INVALID ELSE MSG_GENERIC
       /\ status' = ERROR
       /\ UNCHANGED <<variant, mode, input, questions, answers, result, apiKey,
                      storedKey>>

\* handleGenerate after the await settles with outcome o (direct build).
handleGenerateSettled(action, o) ==
  IF o.ok
  THEN IF action = "fast"
       THEN /\ result' = o.text
            /\ status' = COMPLETED
            /\ UNCHANGED <<variant, mode, input, error, questions, answers, apiKey,
                           storedKey>>
       ELSE /\ questions' = o.questions
            /\ status' = AWAITING_INPUT
            /\ UNCHANGED <<variant, mode, input, error, answers, result, apiKey,
                           storedKey>>
  ELSE /\ error' = IF IncludesApiKey(o.message) THEN MSG_KEY_INVALID ELSE MSG_GENERIC
       /\ status' = ERROR
       /\ UNCHANGED <<variant, mode, input, questions, answers, result, apiKey,
                      storedKey>>

\* postToBackend before its fetch: the credential is read from local storage
\* and a missing one throws without any request.
postToBackendNoKey == storedKey = EmptyStr

\* Faulty variant of handleGenerateProxy: the error of the previous run is
\* still shown while the new call is pending.
handleGenerateProxy_keepsError ==
  IF trim(input) = EmptyStr
  THEN UNCHANGED <<variant, mode, input, status, error, questions, answers, result,
                   apiKey, storedKey, inflight>>
  ELSE IF postToBackendNoKey
  THEN /\ error' = MSG_SET_KEY_FIRST
       /\ result' = EmptyStr
       /\ status' = ERROR
       /\ UNCHANGED <<variant, mode, input, questions, answers, apiKey, storedKey,
                      inflight>>
  ELSE /\ result' = EmptyStr
       /\ status' = IF mode = FAST THEN GENERATING_RESULT ELSE GENERATING_QUESTIONS
       /\ inflight' =
            Append(inflight,
                   Call(IF mode = FAST THEN "fast" ELSE "clarify_questions",
                        input, << >>, storedKey))
       /\ UNCHANGED <<variant, mode, input, error, questions, answers, apiKey,
                      storedKey>>

\* Faulty variant of handleGenerateProxy: issuing the call removes the stored
\* credential.
handleGenerateProxy_forgetsKey ==
  IF trim(input) = EmptyStr
  THEN UNCHANGED <<variant, mode, input, status, error, questions, answers, result,
                   apiKey, storedKey, inflight>>
  ELSE IF postToBackendNoKey
  THEN /\ error' = MSG_SET_KEY_FIRST
       /\ result' = EmptyStr
       /\ status' = ERROR
       /\ UNCHANGED <<variant, mode, input, questions, answers, apiKey, storedKey,
                      inflight>>
  ELSE /\ error' = NULL
       /\ result' = EmptyStr
       /\ status' = IF mode = FAST THEN GENERATING_RESULT ELSE GENERATING_QUESTIONS
       /\ inflight' =
            Append(inflight,
                   Call(IF mode = FAST THEN "fast" ELSE "clarify_questions",
                        input, << >>, storedKey))
       /\ storedKey' = EmptyStr
       /\ UNCHANGED <<variant, mode, input, questions, answers, apiKey>>

\* handleGenerate up to its await (proxy build).  A throw of postToBackend
\* before the fetch rejects the awaited promise at once: the catch runs before
\* any other event, so the step ends in ERROR.
handleGenerateProxy ==
  IF trim(input) = EmptyStr
  THEN UNCHANGED <<variant, mode, input, status, error, questions, answers, result,
                   apiKey, storedKey, inflight>>
  ELSE IF postToBackendNoKey
  THEN /\ error' = MSG_SET_KEY_FIRST
       /\ result' = EmptyStr
       /\ status' = ERROR
       /\ UNCHANGED <<variant, mode, input, questions, answers, apiKey, storedKey,
                      inflight>>
  ELSE /\ error' = NULL
       /\ result' = EmptyStr
       /\ status' = IF mode = FAST THEN GENERATING_RESULT ELSE GENERATING_QUESTIONS
       /\ inflight' =
            Append(inflight,
                   Call(IF mode = FAST THEN "fast" ELSE "clarify_questions",
                        input, << >>, storedKey))
       /\ UNCHANGED <<variant, mode, input, questions, answers, apiKey, storedKey>>

\* handleGenerate after the await settles with outcome o (proxy build).
handleGenerateSettledProxy(action, o) ==
  IF o.ok
  THEN IF action = "fast"
       THEN /\ result' = o.text
            /\ status' = COMPLETED
            /\ UNCHANGED <<variant, mode, input, error, questions, answers, apiKey,
                           storedKey>>
       ELSE /\ questions' = o.questions
            /\ status' = AWAITING_INPUT
            /\ UNCHANGED <<variant, mode, input, error, answers, result, apiKey,
                           storedKey>>
  ELSE /\ error' = IF o.message # "" THEN o.message ELSE MSG_SERVER_BUSY
       /\ status' = ERROR
       /\ UNCHANGED <<variant, mode, input, questions, answers, result, apiKey,
                      storedKey>>

\* ------------------------------------------------------------------ clarification
\* An option button: setAnswers(prev => ({...prev, [q.id]: opt.value})).
setAnswers(qid, value) ==
  /\ answers' = [k \in (DOMAIN answers) \cup {qid} |->
                   IF k = qid THEN value ELSE answers[k]]
  /\ UNCHANGED <<variant, mode, input, status, error, questions, result, apiKey,
                 storedKey, inflight>>

\* Object.keys(answers).length
AnswerCount == Cardinality(DOMAIN answers)

\* The submit button of the clarification section (rendered in AWAITING_INPUT):
\* disabled={Object.keys(answers).length < questions.length}
SubmitButtonEnabled ==
  /\ status = AWAITING_INPUT
  /\ ~(AnswerCount < Len(questions))

\* ClarificationView (proxy build): disabled={!isReady}
isReady == Len(questions) > 0 /\ AnswerCount >= Len(questions)

SubmitButtonEnabledProxy == status = AWAITING_INPUT /\ isReady

\* answers[q.id] || q.options[0].value throws a TypeError when the question
\* has no stored answer and no option.
qaPairsThrows ==
  \E i \in 1..Len(questions) :
    ~HasAnswer(answers, questions[i].id) /\ questions[i].options = << >>

qaPairs ==
  [i \in 1..Len(questions) |->
     [question |-> questions[i].text,
      answer |-> IF HasAnswer(answers, questions[i].id)
                 THEN answers[questions[i].id]
                 ELSE questions[i].options[1]]]

\* handleClarificationSubmit up to its await (direct build).
handleClarificationSubmit ==
  IF apiKey = EmptyStr
  THEN /\ error' = MSG_KEY_LOST
       /\ UNCHANGED <<variant, mode, input, status, questions, answers, result,
                      apiKey, storedKey, inflight>>
  ELSE IF qaPairsThrows
  THEN /\ error' = MSG_FINAL_FAILED
       /\ status' = ERROR
       /\ UNCHANGED <<variant, mode, input, questions, answers, result, apiKey,
                      storedKey, inflight>>
  ELSE /\ status' = GENERATING_RESULT
       /\ inflight' = Append(inflight, Call("clarify_final", input, qaPairs, apiKey))
       /\ UNCHANGED <<variant, mode, input, error, questions, answers, result,
                      apiKey, storedKey>>

\* Faulty variant of handleClarificationSubmitSettled: a failed final call
\* throws the collected answers away.
handleClarificationSubmitSettled_clearsAnswers(o) ==
  IF o.ok
  THEN /\ result' = o.text
       /\ status' = COMPLETED
       /\ UNCHANGED <<variant, mode, input, error, questions, answers, apiKey,
                      storedKey>>
  ELSE /\ error' = MSG_FINAL_FAILED
       /\ status' = ERROR
       /\ answers' = NoAnswers
       /\ UNCHANGED <<variant, mode, input, questions, result, apiKey, storedKey>>

\* handleClarificationSubmit after the await settles with outcome o (direct build).
handleClarificationSubmitSettled(o) ==
  IF o.ok
  THEN /\ result' = o.text
       /\ status' = COMPLETED
       /\ UNCHANGED <<variant, mode, input, error, questions, answers, apiKey,
                      storedKey>>
  ELSE /\ error' = MSG_FINAL_FAILED
       /\ status' = ERROR
       /\ UNCHANGED <<variant, mode, input, questions, answers, result, apiKey,
                      storedKey>>

\* handleClarificationSubmit up to its await (proxy build).
handleClarificationSubmitProxy ==
  IF qaPairsThrows
  THEN /\ error' = MSG_OPTIMIZE_FAILED \o MSG_TYPE_ERROR
       /\ status' = ERROR
       /\ UNCHANGED <<variant, mode, input, questions, answers, result, apiKey,
                      storedKey, inflight>>
  ELSE IF postToBackendNoKey
  THEN /\ error' = MSG_OPTIMIZE_FAILED \o MSG_SET_KEY_FIRST
       /\ status' = ERROR
       /\ UNCHANGED <<variant, mode, input, questions, answers, result, apiKey,
                      storedKey, inflight>>
  ELSE /\ status' = GENERATING_RESULT
       /\ inflight' = Append(inflight, Call("clarify_final", input, qaPairs, storedKey))
       /\ UNCHANGED <<variant, mode, input, error, questions, answers, result,
                      apiKey, storedKey>>

handleClarificationSubmitSettledProxy(o) ==
  IF o.ok
  THEN /\ result' = o.text
       /\ status' = COMPLETED
       /\ UNCHANGED <<variant, mode, input, error, questions, answers, apiKey,
                      storedKey>>
  ELSE /\ error' = MSG_OPTIMIZE_FAILED
                     \o (IF o.message # "" THEN o.message ELSE MSG_PLEASE_RETRY)
       /\ status' = ERROR
       /\ UNCHANGED <<variant, mode, input, questions, answers, result, apiKey,
                      storedKey>>

\* ------------------------------------------------------------------ network
\* The request postToBackend sends for a pending call.
RequestOf(c) ==
  Event("POST", RequestBody(c.action, c.input, TRUE, c.qaPairs, c.apiKey))

\* The answers the network can give to pending call c.
\* direct build: whatever the upstream does (a call that hangs gets none).
\* proxy build: the proxy's response, the client's abort timer, or a network failure.
Answers(c) ==
  IF variant = "direct"
  THEN {Resp("upstream", 0, NotJson, up) :
          up \in {u \in UpstreamOutcomes(c.action) : u.kind # "hang"}}
  ELSE {Resp("http", handler(RequestOf(c), up).statusCode,
             handler(RequestOf(c), up).body, NoUp) :
          up \in UpstreamOutcomes(c.action)}
       \cup {Resp("abort", 0, NotJson, NoUp), Resp("netfail", 0, NotJson, NoUp)}

\* What the awaited service function gives for call c once answered.
Outcome(c) ==
  IF variant = "direct"
  THEN CASE c.action = "fast" -> generateFastPromptDirect(c.resp)
         [] c.action = "clarify_questions" -> generateClarificationQuestionsDirect(c.resp)
         [] OTHER -> generateFinalClarifiedPromptDirect(c.resp)
  ELSE CASE c.action = "fast" -> generateFastPrompt(c.resp)
         [] c.action = "clarify_questions" -> generateClarificationQuestions(c.resp)
         [] OTHER -> generateFinalClarifiedPrompt(c.resp)

RemoveAt(seq, i) == SubSeq(seq, 1, i - 1) \o SubSeq(seq, i + 1, Len(seq))

\* ------------------------------------------------------------------ actions
EditKey ==
  /\ variant = "direct"
  /\ \E v \in KeyDrafts : handleKeyChange(v)
  /\ lastOp' = "EditKey"
  /\ UNCHANGED <<proxy, panel>>

SaveKey ==
  /\ variant = "proxy"
  /\ \E d \in KeyDrafts : trim(d) # EmptyStr /\ handleSave(d)
  /\ lastOp' = "SaveKey"
  /\ UNCHANGED <<proxy, panel>>

ClearKey ==
  /\ variant = "proxy"
  /\ storedKey # EmptyStr
  /\ handleClear
  /\ lastOp' = "ClearKey"
  /\ UNCHANGED <<proxy, panel>>

EditInput ==
  /\ InputEnabled
  /\ \E s \in StringsUpTo(MaxLen) : setInput(s)
  /\ lastOp' = "EditInput"
  /\ UNCHANGED <<proxy, panel>>

ToggleMode ==
  /\ \E m \in AppMode : handleModeChange(m)
  /\ lastOp' = "ModeChange"
  /\ UNCHANGED <<proxy, panel>>

ClickGenerate ==
  /\ IF variant = "direct"
     THEN GenerateButtonEnabled /\ handleGenerate
     ELSE GenerateButtonEnabledProxy /\ handleGenerateProxy
  /\ lastOp' = "Generate"
  /\ UNCHANGED <<proxy, panel>>

SelectOption ==
  /\ status = AWAITING_INPUT
  /\ \E i \in 1..Len(questions) :
       \E j \in 1..Len(questions[i].options) :
         setAnswers(questions[i].id, questions[i].options[j])
  /\ lastOp' = "Select"
  /\ UNCHANGED <<proxy, panel>>

ClickSubmit ==
  /\ IF variant = "direct"
     THEN SubmitButtonEnabled /\ handleClarificationSubmit
     ELSE SubmitButtonEnabledProxy /\ handleClarificationSubmitProxy
  /\ lastOp' = "Submit"
  /\ UNCHANGED <<proxy, panel>>

ClickReset ==
  /\ ResetButtonRendered
  /\ handleReset
  /\ lastOp' = "Reset"
  /\ UNCHANGED <<proxy, panel>>

\* The network answers a pending call.
Respond ==
  /\ \E i \in 1..Len(inflight) :
       /\ inflight[i].resp = NoResp
       /\ \E r \in Answers(inflight[i]) :
            inflight' = [inflight EXCEPT ![i].resp = r]
  /\ lastOp' = "Respond"
  /\ UNCHANGED <<proxy, panel>>
  /\ UNCHANGED <<variant, mode, input, status, error, questions, answers, result,
                 apiKey, storedKey>>

\* The client consumes the answer: the awaiting handler resumes.
Deliver ==
  /\ \E i \in 1..Len(inflight) :
       LET c == inflight[i] IN
       /\ c.resp # NoResp
       /\ inflight' = RemoveAt(inflight, i)
       /\ IF variant = "direct"
          THEN IF c.action = "clarify_final"
               THEN handleClarificationSubmitSettled(Outcome(c))
               ELSE handleGenerateSettled(c.action, Outcome(c))
          ELSE IF c.action = "clarify_final"
               THEN handleClarificationSubmitSettledProxy(Outcome(c))
               ELSE handleGenerateSettledProxy(c.action, Outcome(c))
  /\ lastOp' = "Deliver"
  /\ UNCHANGED <<proxy, panel>>

Next ==
  \/ EditKey
  \/ SaveKey
  \/ ClearKey
  \/ EditInput
  \/ ToggleMode
  \/ ClickGenerate
  \/ SelectOption
  \/ ClickSubmit
  \/ ClickReset
  \/ Respond
  \/ Deliver

Spec == Init /\ [][Next]_vars

\* The same system with the progress the code guarantees: a handler whose
\* awaited call has settled is resumed by the event loop, and in the proxy
\* build every pending call settles, because postToBackend aborts its fetch
\* after 20 s.  The services of the direct build fetch without a timer:
\* nothing makes their pending call settle.
SpecLive ==
  Spec /\ WF_vars(Deliver) /\ WF_vars(variant = "proxy" /\ Respond)

\* ------------------------------------------------------------------ the proxy alone
\* A function invoked directly, by any client, with any request.  The
\* functions keep nothing between invocations, so one invocation is followed
\* from the moment before it to its response.
Invoke ==
  /\ proxy = NoInvocation
  /\ \E build \in ProxyBuilds, env \in {EmptyStr, <<"x">>}, e \in Events :
       \E up \in ProxyUpstreamOutcomes(EventAction(e)) :
         proxy' = Invocation(build, env, e, up)
  /\ lastOp' = "Invoke"
  /\ UNCHANGED <<variant, mode, input, status, error, questions, answers, result,
                 apiKey, storedKey, inflight, panel>>

InitProxy == Init /\ variant = "proxy" /\ storedKey = EmptyStr

NextProxy == Invoke

SpecProxy == InitProxy /\ [][NextProxy]_vars

\* ------------------------------------------------------------------ the save panel
\* The component state of the save-button credential panel, step by step. The
\* workflow is left alone: the panel shares only local storage with it.
\* useEffect on mount: a stored credential fills the draft and sets saved,
\* otherwise the input is shown.
PanelMount ==
  /\ ~panel.mounted
  /\ panel' = [mounted |-> TRUE, apiKey |-> storedKey,
               saved |-> storedKey # EmptyStr, showInput |-> storedKey = EmptyStr]
  /\ lastOp' = "Mount"
  /\ UNCHANGED <<variant, mode, input, status, error, questions, answers, result,
                 apiKey, storedKey, inflight, proxy>>

\* The full panel is rendered unless (!showInput && saved).
PanelShown == panel.mounted /\ (panel.showInput \/ ~panel.saved)

\* onChange of the password field: setApiKey(e.target.value)
PanelEdit ==
  /\ PanelShown
  /\ \E d \in StringsUpTo(MaxKeyLen) : panel' = [panel EXCEPT !.apiKey = d]
  /\ lastOp' = "EditDraft"
  /\ UNCHANGED <<variant, mode, input, status, error, questions, answers, result,
                 apiKey, storedKey, inflight, proxy>>

\* handleSave of the component, called with the draft in its state.
PanelSave ==
  /\ PanelShown
  /\ handleSave(panel.apiKey)
  /\ panel' = IF trim(panel.apiKey) = EmptyStr THEN panel
              ELSE [panel EXCEPT !.saved = TRUE, !.showInput = FALSE]
  /\ lastOp' = "SaveKey"
  /\ UNCHANGED proxy

\* handleClear of the component; the button is rendered only when saved.
PanelClear ==
  /\ PanelShown
  /\ panel.saved
  /\ handleClear
  /\ panel' = [panel EXCEPT !.apiKey = EmptyStr, !.saved = FALSE,
                            !.showInput = TRUE]
  /\ lastOp' = "ClearKey"
  /\ UNCHANGED proxy

\* The cancel button, rendered only when saved: setShowInput(false)
PanelCancel ==
  /\ PanelShown
  /\ panel.saved
  /\ panel' = [panel EXCEPT !.showInput = FALSE]
  /\ lastOp' = "Cancel"
  /\ UNCHANGED <<variant, mode, input, status, error, questions, answers, result,
                 apiKey, storedKey, inflight, proxy>>

\* The "configured" button of the collapsed panel: setShowInput(true)
PanelOpen ==
  /\ panel.mounted
  /\ ~PanelShown
  /\ panel' = [panel EXCEPT !.showInput = TRUE]
  /\ lastOp' = "Open"
  /\ UNCHANGED <<variant, mode, input, status, error, questions, answers, result,
                 apiKey, storedKey, inflight, proxy>>

NextPanel ==
  \/ PanelMount
  \/ PanelEdit
  \/ PanelSave
  \/ PanelClear
  \/ PanelCancel
  \/ PanelOpen

InitPanel == Init /\ variant = "proxy"

SpecPanel == InitPanel /\ [][NextPanel]_vars

\* ------------------------------------------------------------------ properties
\* The credential the service layer uses for a call issued now.
Credential == IF variant = "direct" THEN apiKey ELSE storedKey

\* The text a successful call carries back to the client: the first candidate's
\* text (direct build) or the result field of the proxy's response body.
ReturnedText(c) ==
  IF variant = "direct" THEN c.resp.up.text.raw ELSE c.resp.body.result

\* Every question of the current list has a stored answer.
AllAnswered ==
  \A i \in 1..Len(questions) : HasAnswer(answers, questions[i].id)

\* This step issues a call of the given action.
Issues(action) ==
  /\ Len(inflight') = Len(inflight) + 1
  /\ inflight'[Len(inflight')].action = action

\* This step resumes the handler awaiting a call of the given action, which
\* succeeded (ok) or failed.
Settles(action, ok) ==
  /\ lastOp' = "Deliver"
  /\ inflight # << >>
  /\ inflight[1].action = action
  /\ Outcome(inflight[1]).ok = ok

\* C1: a Fast run.  From IDLE with a non-blank input and a configured
\* credential, Generate in Fast mode moves to GENERATING_RESULT and issues
\* exactly one call, of action "fast", carrying the input; when that call
\* succeeds the status becomes COMPLETED and result is the text the call
\* returned.
C1_FastRun ==
  [][ /\ ( /\ lastOp' = "Generate"
           /\ status = IDLE /\ mode = FAST
           /\ trim(input) # EmptyStr /\ Credential # EmptyStr )
         => ( /\ status' = GENERATING_RESULT
              /\ inflight' = <<Call("fast", input, << >>, Credential)>> )
      /\ Settles("fast", TRUE)
         => ( /\ status = GENERATING_RESULT
              /\ status' = COMPLETED
              /\ result' = ReturnedText(inflight[1])
              /\ inflight' = << >> ) ]_vars

\* A Fast run has completed with the returned text as result.
C1_Witness ==
  /\ lastOp = "Deliver"
  /\ status = COMPLETED
  /\ mode = FAST
  /\ result = <<"x">>

\* C2: a Clarify run.  Generate in Clarify mode from IDLE moves to
\* GENERATING_QUESTIONS and issues one clarify_questions call; its success
\* stores the questions and moves to AWAITING_INPUT; submitting with every
\* question answered moves to GENERATING_RESULT and issues one clarify_final
\* call, whose success moves to COMPLETED.  A clarify_final call is issued only
\* by a submit in AWAITING_INPUT, AWAITING_INPUT is entered only by the success
\* of the run's clarify_questions call and left only by a submit.
C2_ClarifyOrdering ==
  [][ /\ ( /\ lastOp' = "Generate"
           /\ status = IDLE /\ mode = CLARIFY
           /\ trim(input) # EmptyStr /\ Credential # EmptyStr )
         => ( /\ status' = GENERATING_QUESTIONS
              /\ inflight' = <<Call("clarify_questions", input, << >>, Credential)>> )
      /\ Settles("clarify_questions", TRUE)
         => ( /\ status = GENERATING_QUESTIONS
              /\ status' = AWAITING_INPUT
              /\ questions' = Outcome(inflight[1]).questions )
      /\ ( /\ lastOp' = "Submit"
           /\ status = AWAITING_INPUT /\ AllAnswered /\ Credential # EmptyStr )
         => ( /\ status' = GENERATING_RESULT
              /\ inflight' = <<Call("clarify_final", input, qaPairs, Credential)>> )
      /\ Settles("clarify_final", TRUE)
         => ( /\ status = GENERATING_RESULT
              /\ status' = COMPLETED
              /\ result' = ReturnedText(inflight[1]) )
      /\ Issues("clarify_final")
         => ( status = AWAITING_INPUT /\ lastOp' = "Submit" )
      /\ ( status # AWAITING_INPUT /\ status' = AWAITING_INPUT )
         => Settles("clarify_questions", TRUE)
      /\ ( status = AWAITING_INPUT /\ status' # AWAITING_INPUT )
         => lastOp' = "Submit" ]_vars

\* A Clarify run over two questions, both answered, has completed.
C2_Witness ==
  /\ lastOp = "Deliver"
  /\ status = COMPLETED
  /\ mode = CLARIFY
  /\ Len(questions) = 2
  /\ AllAnswered
  /\ result = <<"x">>

\* C3: at most one network call is in flight at any time, and a call is in
\* flight exactly while the status is GENERATING_QUESTIONS or
\* GENERATING_RESULT, so no user action starts a second call while one is
\* pending.
C3_OneCallInFlight ==
  /\ Len(inflight) <= 1
  /\ isBusy <=> Len(inflight) = 1

\* The final call of a Clarify run is pending.
C3_Witness ==
  /\ Len(inflight) = 1
  /\ inflight[1].action = "clarify_final"
  /\ status = GENERATING_RESULT

\* C4: when the pending call fails, the status becomes ERROR with a message,
\* and input, question list and answers are what they were.
C4_FailureKeepsData ==
  [][ ( \E a \in KnownActions : Settles(a, FALSE) )
      => ( /\ status' = ERROR
           /\ error' # NULL
           /\ input' = input
           /\ questions' = questions
           /\ answers' = answers ) ]_vars

\* The final call of a Clarify run has failed: questions and answers are kept.
C4_Witness ==
  /\ lastOp = "Deliver"
  /\ status = ERROR
  /\ error # NULL
  /\ questions # << >>
  /\ answers # NoAnswers
  /\ AllAnswered

\* C5: every COMPLETED state has a non-empty result (the proxy's trimmed
\* result included).
C5_CompletedHasResult ==
  status = COMPLETED => result # EmptyStr

\* The submit button of the running build.
SubmitEnabled ==
  IF variant = "direct" THEN SubmitButtonEnabled ELSE SubmitButtonEnabledProxy

\* C6: submitting is enabled only when the answer map has as many entries as
\* there are questions; with fewer entries the submit does nothing.
C6_SubmitNeedsEqualCount ==
  /\ SubmitEnabled => AnswerCount = Len(questions)
  /\ (status = AWAITING_INPUT /\ AnswerCount < Len(questions)) => ~SubmitEnabled

\* C7: whenever a clarify_final call is issued, the answer map has exactly one
\* entry for every question id of the current question list.
C7_FinalHasEveryAnswer ==
  [][ Issues("clarify_final")
      => \A i \in 1..Len(questions) : HasAnswer(answers, questions[i].id) ]_vars

\* The option values of question q.
OptionValues(q) == {q.options[j] : j \in 1..Len(q.options)}

\* C8: the answer stored for the id of a current question is one of that
\* question's option values, so every answer a clarify_final call carries is
\* an option value of its question.
C8_AnswerIsAnOption ==
  \A i \in 1..Len(questions) :
    HasAnswer(answers, questions[i].id)
      => answers[questions[i].id] \in OptionValues(questions[i])

\* C9: AWAITING_INPUT is entered only with a non-empty returned question
\* list: in every AWAITING_INPUT state the question list is non-empty.
C9_AwaitingHasQuestions ==
  status = AWAITING_INPUT => questions # << >>

WorkflowFields == <<status, input, result, questions, answers, error>>
OtherFields == <<variant, mode, apiKey, storedKey, inflight>>

\* C11: in whatever state handleReset runs, it sets status = IDLE, input = '',
\* result = '', questions = [], answers = {} and error = null and leaves mode
\* and the credential as they were; run again on the state a reset has
\* produced, it changes nothing.
C11_ResetClearsAndIsIdempotent ==
  /\ ENABLED handleReset
  /\ ~ENABLED ( /\ handleReset
                /\ \/ WorkflowFields' #
                        <<IDLE, EmptyStr, EmptyStr, << >>, NoAnswers, NULL>>
                   \/ OtherFields' # OtherFields )
  /\ lastOp = "Reset"
       => ~ENABLED ( /\ handleReset
                     /\ \/ WorkflowFields' # WorkflowFields
                        \/ OtherFields' # OtherFields )

\* A reset has run on a completed Clarify run that had questions, answers
\* and a credential; mode and credential are kept.
C11_Witness ==
  /\ lastOp = "Reset"
  /\ WorkflowFields = <<IDLE, EmptyStr, EmptyStr, << >>, NoAnswers, NULL>>
  /\ mode = CLARIFY
  /\ Credential # EmptyStr

\* handleGenerate of the running build.
GenerateHandler ==
  IF variant = "direct" THEN handleGenerate ELSE handleGenerateProxy

\* C12: with an empty or whitespace-only input Generate does nothing, in
\* every state and mode: the button is disabled, and the handler itself
\* returns without issuing a call or changing status, result, questions,
\* answers or error.
C12_BlankInputIsNoOp ==
  trim(input) = EmptyStr
    => /\ ~ENABLED ClickGenerate
       /\ ENABLED GenerateHandler
       /\ ~ENABLED ( /\ GenerateHandler
                     /\ \/ WorkflowFields' # WorkflowFields
                        \/ OtherFields' # OtherFields )

\* A whitespace-only input in Clarify mode after a failed run, with a
\* credential configured: only the blank input stands against a re-run.
C12_Witness ==
  /\ input = <<" ">>
  /\ status = ERROR
  /\ mode = CLARIFY
  /\ Credential # EmptyStr

\* C13: without a configured credential Generate does nothing to the
\* workflow: no call is issued and the status is what it was (only a local
\* validation message is shown).
C13_NoCredentialIsNoOp ==
  [][ (lastOp' = "Generate" /\ Credential = EmptyStr)
      => (inflight' = inflight /\ status' = status) ]_vars

\* C14: the mode changes only while the status is IDLE or COMPLETED; a
\* mode-change request in GENERATING_QUESTIONS, AWAITING_INPUT,
\* GENERATING_RESULT or ERROR leaves the mode and every other field unchanged.
C14_ModeChangeGated ==
  [][ /\ mode' # mode => status \in {IDLE, COMPLETED}
      /\ (lastOp' = "ModeChange" /\ status \notin {IDLE, COMPLETED})
         => ( /\ mode' = mode
              /\ WorkflowFields' = WorkflowFields
              /\ OtherFields' = OtherFields ) ]_vars

\* A mode change was requested while the questions of a Clarify run await
\* their answers.
C14_Witness ==
  /\ lastOp = "ModeChange"
  /\ status = AWAITING_INPUT
  /\ questions # << >>
  /\ mode = CLARIFY

\* C15: a permitted mode change clears questions, answers and error and
\* keeps the input; from COMPLETED it also clears the result and sets the
\* status to IDLE, from IDLE the status stays IDLE; after it the result is
\* empty.
C15_ModeChangeEffect ==
  [][ (lastOp' = "ModeChange" /\ status \in {IDLE, COMPLETED})
      => ( /\ questions' = << >>
           /\ answers' = NoAnswers
           /\ error' = NULL
           /\ input' = input
           /\ status' = IDLE
           /\ result' = EmptyStr
           /\ OtherFields' = [OtherFields EXCEPT ![2] = mode'] ) ]_vars

\* A mode change to Fast has run, with the input kept.
C15_Witness ==
  /\ lastOp = "ModeChange"
  /\ status = IDLE
  /\ mode = FAST
  /\ input = <<"x">>
  /\ questions = << >> /\ answers = NoAnswers /\ error = NULL /\ result = EmptyStr

\* C16: from COMPLETED or ERROR with a non-blank input (and a configured
\* credential) Generate re-enters GENERATING_RESULT in Fast mode and
\* GENERATING_QUESTIONS in Clarify mode, with result and error cleared when
\* the new call is issued.
C16_ReRun ==
  [][ ( /\ lastOp' = "Generate"
        /\ status \in {COMPLETED, ERROR}
        /\ trim(input) # EmptyStr /\ Credential # EmptyStr )
      => ( /\ status' = IF mode = FAST THEN GENERATING_RESULT
                        ELSE GENERATING_QUESTIONS
           /\ result' = EmptyStr
           /\ error' = NULL
           /\ inflight' =
                <<Call(IF mode = FAST THEN "fast" ELSE "clarify_questions",
                       input, << >>, Credential)>> ) ]_vars

\* A Clarify run has been started again: the questions of the previous run
\* are still there while the new clarify_questions call is pending.
C16_Witness ==
  /\ lastOp = "Generate"
  /\ status = GENERATING_QUESTIONS
  /\ questions # << >>
  /\ result = EmptyStr /\ error = NULL

\* The messages shown after a failed clarify_final call.
FinalFailureMessages ==
  {MSG_FINAL_FAILED}
    \cup {MSG_OPTIMIZE_FAILED \o m :
            m \in {MSG_CLIENT_TIMEOUT, MSG_NETWORK, MSG_PROXY_TIMEOUT,
                   MSG_AI_SERVICE, MSG_AI_EMPTY, MSG_FETCH_FAILED}}

\* The clarify_final call of the run has just failed.
FinalCallFailed ==
  /\ lastOp = "Deliver"
  /\ status = ERROR
  /\ error \in FinalFailureMessages

\* C17: after a failed clarify_final call (status ERROR, credential still
\* configured) the user can retry the final synthesis by submitting the
\* answers again, as well as by Generate.
C17_RetryBySubmit ==
  (FinalCallFailed /\ Credential # EmptyStr)
    => (ENABLED ClickSubmit /\ ENABLED ClickGenerate)

\* The client's abort timer ended call c.
ClientTimedOut(c) == c.resp.kind = "abort"

\* The messages shown for a client timeout (by handleGenerate and by
\* handleClarificationSubmit).
TimeoutMessages ==
  {MSG_CLIENT_TIMEOUT, MSG_OPTIMIZE_FAILED \o MSG_CLIENT_TIMEOUT}

\* C18: when the client's call exceeds its timeout, the status becomes ERROR,
\* the error shown is the timeout message, which no other failure shows, and
\* the input is kept.
C18_ClientTimeout ==
  [][ (lastOp' = "Deliver" /\ inflight # << >>)
      => /\ ClientTimedOut(inflight[1])
            => ( /\ status' = ERROR
                 /\ error' \in TimeoutMessages
                 /\ input' = input )
         /\ (~ClientTimedOut(inflight[1]) /\ ~Outcome(inflight[1]).ok)
            => error' \notin TimeoutMessages ]_vars

\* A fast call has run into the client's timeout.
C18_Witness ==
  /\ lastOp = "Deliver"
  /\ status = ERROR
  /\ error = MSG_CLIENT_TIMEOUT
  /\ input = <<"x">>
  /\ mode = FAST

\* The upstream answered call c with a text that is not valid JSON: seen in
\* the candidate's text (direct build) or in the proxy's parse-failure
\* response (proxy build).
MalformedUpstreamJSON(c) ==
  IF variant = "direct"
  THEN /\ c.resp.kind = "upstream"
       /\ c.resp.up.kind = "ok"
       /\ c.resp.up.text # NoText
       /\ c.resp.up.text.doc = NotJson
  ELSE /\ c.resp.kind = "http"
       /\ c.resp.body = JsonMessage(MSG_AI_PARSE)

\* C19: when the upstream answer to a clarify_questions request is not valid
\* JSON, the run ends in ERROR, never in AWAITING_INPUT, and the error shown
\* is the malformed-JSON message.
C19_MalformedJSON ==
  [][ ( /\ lastOp' = "Deliver"
        /\ inflight # << >>
        /\ inflight[1].action = "clarify_questions"
        /\ MalformedUpstreamJSON(inflight[1]) )
      => ( /\ status' = ERROR
           /\ error' \in {MSG_AI_PARSE, MSG_PARSE_DIRECT} ) ]_vars

\* C20: the proxy answers every request whose method is not POST with 405
\* and does not call the upstream, whatever the body and the credential: the
\* response is the same whatever the upstream would do.
C20_MethodNotAllowed ==
  (proxy # NoInvocation /\ proxy.event.httpMethod # "POST")
    => /\ proxy.response = Response(405, NotJson)
       /\ ~proxy.fetched
       /\ \A up \in ProxyUpstreamOutcomes(EventAction(proxy.event)) :
            handlerOf(proxy.build, proxy.event, proxy.env, up) = proxy.response

\* A GET with a well-formed body and a credential, to an upstream that would
\* answer, got 405.
C20_Witness ==
  /\ proxy.event.httpMethod = "GET"
  /\ proxy.event.body.kind = "object"
  /\ proxy.event.body.apiKey # EmptyStr
  /\ proxy.event.body.input # EmptyStr
  /\ proxy.event.body.action = "fast"
  /\ proxy.up.kind = "ok"
  /\ proxy.response.statusCode = 405

\* ------------------------------------------------------------------ properties of the proxy
\* The credential the invoked function would use: the request's apiKey or the
\* server's API_KEY.
ProxyCredential ==
  IF proxy.build \in EnvKeyBuilds THEN proxy.env
  ELSE IF proxy.event.body.kind = "object" THEN proxy.event.body.apiKey
  ELSE EmptyStr

\* A POST with a parseable body and the credential the function requires.
AuthorizedPost ==
  /\ proxy.event.httpMethod = "POST"
  /\ proxy.event.body.kind = "object"
  /\ ProxyCredential # EmptyStr

\* input is missing, empty or not a string.
InvalidInput ==
  proxy.event.body.input = EmptyStr \/ ~proxy.event.body.inputIsString

\* C21: a POST (with parseable body and credential) whose input is missing,
\* empty or not a string is answered with 400 and the upstream is not
\* called, whatever the action.
C21_InvalidInputRejected ==
  (AuthorizedPost /\ InvalidInput)
    => (proxy.response.statusCode = 400 /\ ~proxy.fetched)

\* The bodies with which the functions reject an unknown action.
InvalidActionBodies ==
  {JsonMessage(MSG_INVALID_ACTION), JsonMessage("Unknown action type")}

\* C22: a POST (with parseable body and credential) with valid input whose
\* action is not fast, clarify_questions or clarify_final is answered with
\* 400 (invalid action) and the upstream is not called; with one of the three
\* known actions the request is accepted: the upstream is called and the
\* response is not the invalid-action rejection.
C22_InvalidActionRejected ==
  (AuthorizedPost /\ ~InvalidInput)
    => IF proxy.event.body.action \in KnownActions
       THEN proxy.fetched /\ proxy.response.body \notin InvalidActionBodies
       ELSE /\ proxy.response.statusCode = 400
            /\ proxy.response.body \in InvalidActionBodies
            /\ ~proxy.fetched

\* The request-key function got a POST with credential, valid input and an
\* unknown action, and answered 400.
C22_Witness ==
  /\ proxy.build = "request"
  /\ AuthorizedPost /\ ~InvalidInput
  /\ proxy.event.body.action \notin KnownActions
  /\ proxy.up.kind = "ok"
  /\ proxy.response.statusCode = 400

\* C23: a POST for which the required credential is absent (no apiKey in a
\* parseable request body, or no API_KEY in the server environment) is
\* answered with 401 and the upstream is not called.
C23_MissingCredentialIs401 ==
  ( /\ proxy.event.httpMethod = "POST"
    /\ proxy.build \in EnvKeyBuilds \/ proxy.event.body.kind = "object"
    /\ ProxyCredential = EmptyStr )
    => (proxy.response.statusCode = 401 /\ ~proxy.fetched)

\* The functions whose upstream call is aborted by a timer.
TimerBuilds == {"request", "env", "deepseek"}

\* The upstream call was made and failed otherwise: network failure, non-2xx
\* status, no text, or a text that is no JSON where JSON was asked for.
UpstreamFailed ==
  /\ proxy.fetched
  /\ \/ proxy.up.kind \in {"netfail", "error"}
     \/ proxy.up.kind = "ok" /\ proxy.up.text = NoText
     \/ /\ proxy.up.kind = "ok"
        /\ proxy.event.body.action = "clarify_questions"
        /\ proxy.up.text.doc = NotJson

\* C24: an upstream call that timed out is answered with 504, and every other
\* upstream failure with 502 or 500, never with 200 or a 4xx status.
C24_UpstreamFailureStatus ==
  /\ (proxy.fetched /\ proxy.up.kind = "hang" /\ proxy.build \in TimerBuilds)
       => proxy.response.statusCode = 504
  /\ UpstreamFailed => proxy.response.statusCode \in {500, 502}

\* C25: every 200 response to a clarify_questions request carries a questions
\* array: an upstream text that does not parse, or parses to something
\* without a questions array, is not answered with 200.
C25_QuestionsShapeValidated ==
  ( /\ proxy.fetched
    /\ proxy.event.body.action = "clarify_questions"
    /\ proxy.response.statusCode = 200 )
    => proxy.response.body.k = "questions"

\* C26: a 200 response to a fast or clarify_final request has the body
\* {result: t}, t being the upstream text without its leading and trailing
\* whitespace.
C26_ResultIsTrimmed ==
  ( /\ proxy.fetched
    /\ proxy.event.body.action \in {"fast", "clarify_final"}
    /\ proxy.response.statusCode = 200 )
    => proxy.response.body = JsonResult(trim(proxy.up.text.raw))

\* C27: every response with a status other than 200 has a JSON body of the
\* form {message: string}.
C27_FailureBodyIsMessage ==
  ( /\ proxy # NoInvocation
    /\ proxy.response # NoResponse
    /\ proxy.response.statusCode # 200 )
    => proxy.response.body.k = "message"

\* C28: the upstream call of an invocation is bounded by a timeout: when the
\* upstream never answers, the invocation still ends, with a timeout (504)
\* response.
C28_UpstreamCallIsBounded ==
  (proxy.fetched /\ proxy.up.kind = "hang")
    => (proxy.response # NoResponse /\ proxy.response.statusCode = 504)

\* The actions by which the user edits the credential field.
CredentialEdits == {"EditKey", "SaveKey", "ClearKey"}

\* C29: the persisted credential changes only in a step where the user edits,
\* saves or clears the credential; Generate, Submit, Reset, a mode change, an
\* input edit, an answer selection and the resolution of a call leave it as
\* it is; and a call carries the credential current when it is issued.
C29_CredentialWrittenOnlyByUser ==
  [][ /\ storedKey' # storedKey => lastOp' \in CredentialEdits
      /\ lastOp' \notin CredentialEdits => apiKey' = apiKey
      /\ Len(inflight') > Len(inflight)
           => inflight'[Len(inflight')].apiKey = Credential ]_vars

\* A stored credential has been replaced by the user while the call issued
\* with it is still pending: the call carries the credential of its issue.
C29_Witness ==
  /\ lastOp \in CredentialEdits
  /\ inflight # << >>
  /\ inflight[1].apiKey # EmptyStr
  /\ storedKey = EmptyStr

\* C30: a non-empty question set shown in AWAITING_INPUT has 2 or 3 questions.
C30_TwoOrThreeQuestions ==
  (status = AWAITING_INPUT /\ questions # << >>) => Len(questions) \in {2, 3}

\* C31: a POST whose body is absent or is no parseable JSON is answered with
\* 400 and the upstream is not called (for a function reading the server's
\* API_KEY: when that key is set).
C31_MalformedBodyIs400 ==
  ( /\ proxy.event.httpMethod = "POST"
    /\ proxy.event.body.kind \in {"none", "malformed"}
    /\ proxy.build \in EnvKeyBuilds => proxy.env # EmptyStr )
    => (proxy.response.statusCode = 400 /\ ~proxy.fetched)

\* ------------------------------------------------------------------ properties of the workflow, continued
\* C32: while a call is pending the status is the Generating state of that
\* call, and no Generate, Submit, Reset, input edit or answer selection can
\* happen and no mode change has an effect, so the response is delivered
\* into the state that issued the call.
C32_NoUserActionWhilePending ==
  inflight # << >>
    => /\ status = IF inflight[1].action = "clarify_questions"
                   THEN GENERATING_QUESTIONS ELSE GENERATING_RESULT
       /\ ~ENABLED ClickGenerate
       /\ ~ENABLED ClickSubmit
       /\ ~ENABLED ClickReset
       /\ ~ENABLED EditInput
       /\ ~ENABLED SelectOption
       /\ ~ENABLED (ToggleMode /\ <<WorkflowFields, mode, inflight>>'
                                    # <<WorkflowFields, mode, inflight>>)

\* The answer to the clarify_final call has arrived and waits for the handler
\* to resume, after a run that already holds questions and answers.
C32_Witness ==
  /\ Len(inflight) = 1
  /\ inflight[1].action = "clarify_final"
  /\ inflight[1].resp # NoResp
  /\ status = GENERATING_RESULT
  /\ answers # NoAnswers

\* C33: when AWAITING_INPUT has just been entered (the clarify_questions call
\* was delivered), the answer map is empty.
C33_AnswersEmptyOnEntry ==
  (lastOp = "Deliver" /\ status = AWAITING_INPUT) => answers = NoAnswers

\* C34: the error message is non-null only in status ERROR.
C34_ErrorOnlyInErrorStatus ==
  status # ERROR => error = NULL

\* C35: in AWAITING_INPUT, COMPLETED and ERROR some user action is possible
\* that advances or resets the workflow: Generate, Submit, Reset, selecting
\* an answer, editing the input, or a mode change that has an effect.
C35_NoDeadEnd ==
  status \in {AWAITING_INPUT, COMPLETED, ERROR}
    => \/ ENABLED ClickGenerate
       \/ ENABLED ClickSubmit
       \/ ENABLED ClickReset
       \/ ENABLED SelectOption
       \/ ENABLED EditInput
       \/ ENABLED (ToggleMode /\ status' # status)

\* C36: every GENERATING_QUESTIONS or GENERATING_RESULT state is eventually
\* left for AWAITING_INPUT, COMPLETED or ERROR.
C36_GeneratingIsLeft ==
  isBusy ~> (status \in {AWAITING_INPUT, COMPLETED, ERROR})

\* C37: within a Clarify run the input cannot change.  No step taken in
\* GENERATING_QUESTIONS, AWAITING_INPUT or GENERATING_RESULT changes the
\* input; AWAITING_INPUT is entered only by the delivery of a
\* clarify_questions call that carried the present input; and the
\* clarify_final call is issued from AWAITING_INPUT with the present input.
\* So the final call sends the input of the call that produced the questions.
C37_InputFixedWithinRun ==
  [][ /\ status \in {GENERATING_QUESTIONS, AWAITING_INPUT, GENERATING_RESULT}
           => input' = input
      /\ (status # AWAITING_INPUT /\ status' = AWAITING_INPUT)
           => ( /\ Settles("clarify_questions", TRUE)
                /\ inflight[1].input = input )
      /\ Issues("clarify_final")
           => ( /\ status = AWAITING_INPUT
                /\ inflight'[Len(inflight')].input = input ) ]_vars

\* The final call of a Clarify run is pending and carries the input that is
\* still in the textarea.
C37_Witness ==
  /\ lastOp = "Submit"
  /\ Len(inflight) = 1
  /\ inflight[1].action = "clarify_final"
  /\ inflight[1].input = input
  /\ trim(input) # EmptyStr
  /\ questions # << >>

\* C38: a POST failing several checks is answered by the earliest one, in the
\* order credential, input, action: without the credential the answer is the
\* credential error (401, or 500 for a missing server key) whatever input and
\* action are; with the credential and an invalid input it is the 400 input
\* error ("Invalid input." / "Missing 'input' field") whatever the action is.
C38_ValidationOrder ==
  ( proxy.event.httpMethod = "POST" /\ proxy.event.body.kind = "object" )
    => /\ ProxyCredential = EmptyStr
            => ( /\ proxy.response.statusCode \in {401, 500}
                 /\ ~proxy.fetched )
       /\ (ProxyCredential # EmptyStr /\ InvalidInput)
            => ( /\ proxy.response.statusCode = 400
                 /\ proxy.response.body
                      \in {JsonMessage(MSG_INVALID_INPUT),
                           JsonMessage("Missing 'input' field")}
                 /\ ~proxy.fetched )


\* C39: in the save panel, saving a blank or whitespace-only draft changes
\* nothing; after any sequence of edit, save, clear and cancel actions the
\* stored credential, when present, is a non-blank trimmed string, and saved
\* is true exactly when a credential is stored.
C39_SavedIffPersisted ==
  panel.mounted =>
    /\ storedKey # EmptyStr => (trim(storedKey) = storedKey)
    /\ panel.saved <=> (storedKey # EmptyStr)
    /\ trim(panel.apiKey) = EmptyStr =>
         ~ENABLED (PanelSave /\ <<storedKey, panel>>' # <<storedKey, panel>>)

\* A draft with surrounding blanks has been saved and is stored trimmed.
C39_Witness ==
  /\ lastOp = "SaveKey"
  /\ panel.saved
  /\ panel.apiKey # storedKey
  /\ trim(panel.apiKey) = storedKey
  /\ storedKey # EmptyStr
====
